---- MODULE Spec2Model ----
(***************************************************************************)
(* Model of src/main.py: the RobotProtocol frame encoders and the          *)
(* TCPClient connection manager with its background receive threads.       *)
(*                                                                         *)
(* Two specifications share the variables:                                 *)
(*   Spec      - TCPClient driven by one caller thread (the UI thread)     *)
(*               interleaved with the steps of every receive thread.       *)
(*   SpecCodec - the pure RobotProtocol functions applied to inputs drawn  *)
(*               from bounded sets.                                        *)
(* Strings returned by the code are Chinese; they are written here as      *)
(* ASCII tags (see MsgXxx).                                                *)
(***************************************************************************)
EXTENDS Integers, Sequences, FiniteSets, TLC

\* ------------------------------------------------------------------ bounds
\* connect calls the caller thread makes (one socket object each).
MaxConnects == 2
\* recv() calls that return a non-empty chunk, over all threads.
MaxChunks == 2
\* Length of the byte strings passed to calculate_checksum.
MaxLen == 4

\* ------------------------------------------------------------- input sets
Hosts == {"192.168.0.12", "10.0.0.7"}
Ports == {12345}
\* The bytes the robot sends, as the reads cut them: a whole movement
\* response, the two halves of a speed response, two movement responses
\* merged into one read. The k-th read that returns data returns the k-th
\* piece (cyclically), on whatever socket and thread it happens.
Inbound == << <<170, 85, 4, 128, 0, 1>>,
              <<170, 85, 7, 129>>,
              <<1, 0, 57, 7>>,
              <<170, 85, 4, 128, 0, 6, 170, 85, 4, 128, 1, 6>> >>
NextPiece(k) == Inbound[((k - 1) % Len(Inbound)) + 1]
Directions == -1..7
IdBytes == 0..255
\* The ids passed to the encoders: every byte, and a value on either side.
Ids == IdBytes \cup {-1, 256}
Speeds == {-50, -1, 0, 1, 57, 115, 116, 300}
Accels == {-10, 0, 7, 255, 256, 400}
\* An angle is a number of 1/AngleScale degrees: float(angle_degrees) at a
\* fixed resolution. Between 0 and 180 the float expression
\* int(x * 180.0 / 180.0) equals int(x) for every double x (it is monotone,
\* exact at every integer n and below n at the double just under n), so the
\* exact arithmetic used here gives the byte the code gives.
AngleScale == 10
Angles == {-300, -1, 0, 1, 9, 10, 15, 899, 900, 905, 1795, 1799, 1800, 1801, 2500}
\* Ids used with the angles and with the response buffers.
FewIds == {0, 1, 4, 5, 200, 255}

\* ---------------------------------------------------------------- values
\* Python's None where the code stores a socket or a thread (ids are 1..).
None == 0
\* Return messages of TCPClient (main.py 191-197, 212-219).
MsgConnectOk == "connect ok"
MsgConnectTimeout == "connect timeout"
MsgConnectRefused == "connection refused"
MsgConnectFailed == "connect failed"
MsgNotConnected == "not connected"
MsgSendOk == "send ok"
MsgSendFailed == "send failed"
\* The three except clauses of connect.
ConnectErrors == {"timeout", "refused", "other"}
\* The observer the application registers at construction (main.py 297).
receive_callback == "on_data_received"
\* A result of an encoder: None, or a byte string.
NoFrame == [none |-> TRUE, raised |-> FALSE, bytes |-> <<>>]
Frame(b) == [none |-> FALSE, raised |-> FALSE, bytes |-> b]
\* The call raised: bytes([x]) raises ValueError unless x is in 0..255.
Raised == [none |-> FALSE, raised |-> TRUE, bytes |-> <<>>]
IsByte(x) == x \in 0..255
\* The local `data` of a receive thread that holds no chunk.
NoData == [id |-> 0, bytes |-> <<>>]

VARIABLES
  socket,          \* TCPClient.socket: None or a socket id
  is_connected,    \* TCPClient.is_connected
  receive_thread,  \* TCPClient.receive_thread: None or a thread id
  host, port,      \* TCPClient.host, TCPClient.port
  sockets,         \* every socket object created so far: id -> status
  threads,         \* every receive thread started so far: id -> [pc, sock, data,
                   \* last]; sock is the socket of the recv call in progress
                   \* (None outside recv); last is how the thread came to where
                   \* it is: "start", the outcome of its last recv ("timeout",
                   \* "empty", "data", "error"), of its last observer call
                   \* ("delivered", "raised") or of the loop test ("test",
                   \* "flag")
  callerPc,        \* position of the caller thread: "idle" or inside connect
  callArgs,        \* arguments of the connect call in progress
  lastCall,        \* the last API call that returned, with its result; tick
                   \* flips at every return, so that a step that returns from
                   \* a call is told from every other step; wrote is the
                   \* socket the call passed to sendall, or None; prev is
                   \* the call that returned before it
  readLog,         \* history: the bytes of every chunk a recv returned, in order
  deliveredLog,    \* history: the argument of every call of the observer
  codec            \* a RobotProtocol call: function, arguments and, once it
                   \* has returned (done), its result (SpecCodec)

linkVars == <<socket, is_connected, receive_thread, host, port, sockets, threads,
              callerPc, callArgs, lastCall, readLog, deliveredLog>>
vars == <<socket, is_connected, receive_thread, host, port, sockets, threads,
          callerPc, callArgs, lastCall, readLog, deliveredLog, codec>>

\* ------------------------------------------------------------ RobotProtocol
RECURSIVE SumLow8(_, _)
\* The loop of calculate_checksum: checksum = (checksum + byte) & 0xFF.
SumLow8(bs, checksum) ==
  IF bs = <<>> THEN checksum
  ELSE SumLow8(Tail(bs), (checksum + Head(bs)) % 256)

\* Mutant of calculate_checksum: the header is not skipped.
calculate_checksum_whole(data_bytes) == SumLow8(data_bytes, 0)

\* Mutant of calculate_checksum: the sum starts at the TYPE byte, after the
\* header and the LEN byte.
calculate_checksum_from_type(data_bytes) ==
  IF data_bytes = <<>> THEN 0
  ELSE LET checksum_bytes ==
             IF Len(data_bytes) >= 2 /\ data_bytes[1] = 170 /\ data_bytes[2] = 85
             THEN SubSeq(data_bytes, 4, Len(data_bytes))
             ELSE data_bytes
       IN SumLow8(checksum_bytes, 0)

\* Mutant of calculate_checksum: the last byte is taken for a checksum byte
\* and left out of the sum.
calculate_checksum_drop_last(data_bytes) ==
  IF data_bytes = <<>> THEN 0
  ELSE LET checksum_bytes ==
             IF Len(data_bytes) >= 2 /\ data_bytes[1] = 170 /\ data_bytes[2] = 85
             THEN SubSeq(data_bytes, 3, Len(data_bytes) - 1)
             ELSE data_bytes
       IN SumLow8(checksum_bytes, 0)

calculate_checksum(data_bytes) ==
  IF data_bytes = <<>> THEN 0
  ELSE LET checksum_bytes ==
             IF Len(data_bytes) >= 2 /\ data_bytes[1] = 170 /\ data_bytes[2] = 85
             THEN SubSeq(data_bytes, 3, Len(data_bytes))
             ELSE data_bytes
       IN SumLow8(checksum_bytes, 0)

\* The dict `commands` of create_movement_command.
commands == [d \in 1..6 |-> d]

\* Mutant of create_movement_command: id and direction bytes in the wrong order.
create_movement_command_swapped(direction, id_byte) ==
  IF direction \notin DOMAIN commands THEN NoFrame
  ELSE IF ~IsByte(id_byte) THEN Raised
  ELSE LET frame_data == <<4, 128, commands[direction], id_byte>>
           checksum == calculate_checksum(<<170, 85>> \o frame_data)
       IN Frame(<<170, 85>> \o frame_data \o <<checksum>>)

\* Mutant of create_movement_command: the frame data are built before the
\* direction is looked up, and an unknown direction is sent as 0.
create_movement_command_unchecked(direction, id_byte) ==
  IF ~IsByte(id_byte) THEN Raised
  ELSE LET code == IF direction \in DOMAIN commands THEN commands[direction] ELSE 0
           frame_data == <<4, 128, id_byte, code>>
           checksum == calculate_checksum(<<170, 85>> \o frame_data)
       IN Frame(<<170, 85>> \o frame_data \o <<checksum>>)

create_movement_command(direction, id_byte) ==
  IF direction \notin DOMAIN commands THEN NoFrame
  ELSE IF ~IsByte(id_byte) THEN Raised
  ELSE LET frame_data == <<4, 128, id_byte, commands[direction]>>
           checksum == calculate_checksum(<<170, 85>> \o frame_data)
       IN Frame(<<170, 85>> \o frame_data \o <<checksum>>)

Max(a, b) == IF a >= b THEN a ELSE b
Min(a, b) == IF a <= b THEN a ELSE b

\* Mutant of create_speed_command: the speed has no lower clamp.
create_speed_command_no_floor(speed_rpm, accel_time, id_byte) ==
  LET speed == Min(115, speed_rpm)
      accel == Max(0, Min(255, accel_time))
      frame_data == <<7, 129, 1, id_byte, speed, accel>>
      checksum == calculate_checksum(<<170, 85>> \o frame_data)
  IN IF ~IsByte(id_byte) \/ ~IsByte(speed) \/ ~IsByte(accel) THEN Raised
     ELSE Frame(<<170, 85>> \o frame_data \o <<checksum>>)

\* Mutant of create_speed_command: the sub-type byte is left out.
create_speed_command_no_subtype(speed_rpm, accel_time, id_byte) ==
  LET speed == Max(0, Min(115, speed_rpm))
      accel == Max(0, Min(255, accel_time))
      frame_data == <<7, 129, id_byte, speed, accel>>
      checksum == calculate_checksum(<<170, 85>> \o frame_data)
  IN IF ~IsByte(id_byte) \/ ~IsByte(speed) \/ ~IsByte(accel) THEN Raised
     ELSE Frame(<<170, 85>> \o frame_data \o <<checksum>>)

\* Mutant of create_speed_command: the length byte is computed as the count
\* of the bytes from the type byte to the end of the payload.
create_speed_command_counted_len(speed_rpm, accel_time, id_byte) ==
  LET speed == Max(0, Min(115, speed_rpm))
      accel == Max(0, Min(255, accel_time))
      frame_data == <<5, 129, 1, id_byte, speed, accel>>
      checksum == calculate_checksum(<<170, 85>> \o frame_data)
  IN IF ~IsByte(id_byte) \/ ~IsByte(speed) \/ ~IsByte(accel) THEN Raised
     ELSE Frame(<<170, 85>> \o frame_data \o <<checksum>>)

\* int(speed_rpm) and int(accel_time) are the identity on the integers drawn.
create_speed_command(speed_rpm, accel_time, id_byte) ==
  LET speed == Max(0, Min(115, speed_rpm))
      accel == Max(0, Min(255, accel_time))
      frame_data == <<7, 129, 1, id_byte, speed, accel>>
      checksum == calculate_checksum(<<170, 85>> \o frame_data)
  IN IF ~IsByte(id_byte) \/ ~IsByte(speed) \/ ~IsByte(accel) THEN Raised
     ELSE Frame(<<170, 85>> \o frame_data \o <<checksum>>)

\* Mutant of create_angle_command: 0..180 degrees mapped to 0..255, as the
\* comment of line 133 says.
create_angle_command_to_255(angle_degrees, id_byte) ==
  LET clamped == Max(0, Min(180 * AngleScale, angle_degrees))
      angle_byte == Max(0, Min(255, (clamped * 255) \div (180 * AngleScale)))
      frame_data == <<7, 129, 2, id_byte, angle_byte, 0>>
      checksum == calculate_checksum(<<170, 85>> \o frame_data)
  IN IF ~IsByte(id_byte) \/ ~IsByte(angle_byte) THEN Raised
     ELSE Frame(<<170, 85>> \o frame_data \o <<checksum>>)

\* angle_degrees is in units of 1/AngleScale degree; int() of a value that
\* is not negative is the floor of the quotient.
create_angle_command(angle_degrees, id_byte) ==
  LET clamped == Max(0, Min(180 * AngleScale, angle_degrees))
      angle_byte == Max(0, Min(255, (clamped * 180) \div (180 * AngleScale)))
      frame_data == <<7, 129, 2, id_byte, angle_byte, 0>>
      checksum == calculate_checksum(<<170, 85>> \o frame_data)
  IN IF ~IsByte(id_byte) \/ ~IsByte(angle_byte) THEN Raised
     ELSE Frame(<<170, 85>> \o frame_data \o <<checksum>>)

\* decode_angle_from_byte: angle_byte * 180.0 / 180.0, exact for a byte.
decode_angle_from_byte(angle_byte) == (angle_byte * 180) \div 180

\* ----------------------------------------------------------- decode_response
\* decode_response returns None or a text; the text is kept here as its
\* parts, each formatted as the code formats it. The names are the Chinese
\* names of the code in English.
HexDigit == <<"0", "1", "2", "3", "4", "5", "6", "7", "8", "9",
              "A", "B", "C", "D", "E", "F">>
\* The format 0x{angle_byte:02X}.
Hex2(b) == "0x" \o HexDigit[(b \div 16) + 1] \o HexDigit[(b % 16) + 1]
\* The format {angle_degrees:.1f} of a whole number of degrees.
OneDecimal(n) == ToString(n) \o ".0"

direction_codes == [d \in 1..6 |->
  CASE d = 1 -> "forward ack" [] d = 2 -> "backward ack" [] d = 3 -> "left ack"
    [] d = 4 -> "right ack" [] d = 5 -> "brake ack" [] OTHER -> "stop ack"]
id_names == [i \in 0..4 |-> IF i = 0 THEN "whole car" ELSE "hub " \o ToString(i)]
\* direction_codes.get(direction, 'unknown')
DirectionName(b) == IF b \in DOMAIN direction_codes THEN direction_codes[b] ELSE "unknown"
\* id_names.get(id_byte, f"ID={id_byte}")
IdName(b) == IF b \in DOMAIN id_names THEN id_names[b] ELSE "ID=" \o ToString(b)

NoResponse == [kind |-> "none", id |-> "", direction |-> "", speed |-> "", accel |-> "",
               degrees |-> "", byte |-> ""]
MovementResponse(id_byte, direction) ==
  [NoResponse EXCEPT !.kind = "movement", !.id = IdName(id_byte),
                     !.direction = DirectionName(direction)]
SpeedResponse(id_byte, speed, accel) ==
  [NoResponse EXCEPT !.kind = "speed", !.id = IdName(id_byte),
                     !.speed = ToString(speed), !.accel = ToString(accel)]
AngleResponse(angle_byte) ==
  [NoResponse EXCEPT !.kind = "angle",
                     !.degrees = OneDecimal(decode_angle_from_byte(angle_byte)),
                     !.byte = Hex2(angle_byte)]

\* Mutant of decode_response: the length byte takes no part in the dispatch.
decode_response_any_len(data) ==
  IF Len(data) < 6 THEN NoResponse
  ELSE IF data[1] # 170 \/ data[2] # 85 THEN NoResponse
  ELSE IF Len(data) = 6 /\ data[4] = 128
       THEN MovementResponse(data[5], data[6])
  ELSE IF Len(data) = 8 /\ data[4] = 129 /\ data[5] = 1
       THEN SpeedResponse(data[6], data[7], data[8])
  ELSE IF Len(data) = 8 /\ data[4] = 129 /\ data[5] = 2
       THEN AngleResponse(data[7])
  ELSE NoResponse

\* Mutant of decode_response: a movement response is accepted at the start
\* of a longer buffer.
decode_response_prefix(data) ==
  IF Len(data) < 6 THEN NoResponse
  ELSE IF data[1] # 170 \/ data[2] # 85 THEN NoResponse
  ELSE IF Len(data) >= 6 /\ data[3] = 4 /\ data[4] = 128
       THEN MovementResponse(data[5], data[6])
  ELSE IF Len(data) = 8 /\ data[3] = 7 /\ data[4] = 129 /\ data[5] = 1
       THEN SpeedResponse(data[6], data[7], data[8])
  ELSE IF Len(data) = 8 /\ data[3] = 7 /\ data[4] = 129 /\ data[5] = 2
       THEN AngleResponse(data[7])
  ELSE NoResponse

\* Mutant of decode_response: the speed response read one byte too early.
decode_response_shifted(data) ==
  IF Len(data) < 6 THEN NoResponse
  ELSE IF data[1] # 170 \/ data[2] # 85 THEN NoResponse
  ELSE IF Len(data) = 6 /\ data[3] = 4 /\ data[4] = 128
       THEN MovementResponse(data[5], data[6])
  ELSE IF Len(data) = 8 /\ data[3] = 7 /\ data[4] = 129 /\ data[5] = 1
       THEN SpeedResponse(data[5], data[6], data[7])
  ELSE IF Len(data) = 8 /\ data[3] = 7 /\ data[4] = 129 /\ data[5] = 2
       THEN AngleResponse(data[7])
  ELSE NoResponse

\* Python indexes from 0: data[k] of the code is data[k + 1] here.
decode_response(data) ==
  IF Len(data) < 6 THEN NoResponse
  ELSE IF data[1] # 170 \/ data[2] # 85 THEN NoResponse
  ELSE IF Len(data) = 6 /\ data[3] = 4 /\ data[4] = 128
       THEN MovementResponse(data[5], data[6])
  ELSE IF Len(data) = 8 /\ data[3] = 7 /\ data[4] = 129 /\ data[5] = 1
       THEN SpeedResponse(data[6], data[7], data[8])
  ELSE IF Len(data) = 8 /\ data[3] = 7 /\ data[4] = 129 /\ data[5] = 2
       THEN AngleResponse(data[7])
  ELSE NoResponse

\* ---------------------------------------------------------------- TCPClient
InitLink ==
  /\ socket = None
  /\ is_connected = FALSE
  /\ receive_thread = None
  /\ host = "192.168.0.12"
  /\ port = 12345
  /\ sockets = <<>>
  /\ threads = <<>>
  /\ callerPc = "idle"
  /\ callArgs = <<>>
  /\ lastCall = [tick |-> 0, op |-> "init", ok |-> TRUE, msg |-> "", wrote |-> None,
                 prev |-> "init"]
  /\ readLog = <<>>
  /\ deliveredLog = <<>>

\* args are the numbers passed to an encoder, data the bytes passed to
\* calculate_checksum or decode_response; result is what an encoder returned,
\* sum what calculate_checksum returned, response what decode_response
\* returned; echoed says that response is the decoding of the response
\* shape of result, looped that it is the decoding of the whole of result.
NoCall == [fn |-> "none", args |-> <<>>, data |-> <<>>, done |-> FALSE,
           result |-> NoFrame, sum |-> 0, response |-> NoResponse, echoed |-> FALSE,
           looped |-> FALSE]

Init == InitLink /\ codec = NoCall

Returned(op, ok, msg, wrote) ==
  [tick |-> 1 - lastCall.tick, op |-> op, ok |-> ok, msg |-> msg, wrote |-> wrote,
   prev |-> lastCall.op]

\* The caller thread is between two API calls.
CanCall == callerPc = "idle"

\* Mutant of ConnectBegin: the flag is set before socket.connect has returned.
ConnectBegin_FlagEarly(h, p) ==
  /\ CanCall
  /\ Len(sockets) < MaxConnects
  /\ sockets' = Append(sockets, "connecting")
  /\ socket' = Len(sockets) + 1
  /\ is_connected' = TRUE
  /\ callerPc' = "connecting"
  /\ callArgs' = <<h, p>>
  /\ UNCHANGED <<receive_thread, host, port, threads, lastCall,
                 readLog, deliveredLog, codec>>

\* connect, lines 179-180: a new socket object is created and stored in
\* self.socket; the caller then blocks in socket.connect (up to 5 s).
ConnectBegin(h, p) ==
  /\ CanCall
  /\ Len(sockets) < MaxConnects
  /\ sockets' = Append(sockets, "connecting")
  /\ socket' = Len(sockets) + 1
  /\ callerPc' = "connecting"
  /\ callArgs' = <<h, p>>
  /\ UNCHANGED <<is_connected, receive_thread, host, port, threads, lastCall,
                 readLog, deliveredLog, codec>>

\* Mutant of ConnectOk: the target of the connection is not recorded.
ConnectOk_NoTarget ==
  /\ callerPc = "connecting"
  /\ sockets' = [sockets EXCEPT ![socket] = "connected"]
  /\ is_connected' = TRUE
  /\ threads' = Append(threads, [pc |-> "loop", sock |-> None, data |-> NoData,
                                 last |-> "start"])
  /\ receive_thread' = Len(threads) + 1
  /\ lastCall' = Returned("connect", TRUE, MsgConnectOk, None)
  /\ callerPc' = "idle"
  /\ callArgs' = <<>>
  /\ UNCHANGED <<socket, host, port, readLog, deliveredLog, codec>>

\* connect, lines 181-191: socket.connect returned.
ConnectOk ==
  /\ callerPc = "connecting"
  /\ sockets' = [sockets EXCEPT ![socket] = "connected"]
  /\ is_connected' = TRUE
  /\ host' = callArgs[1]
  /\ port' = callArgs[2]
  /\ threads' = Append(threads, [pc |-> "loop", sock |-> None, data |-> NoData,
                                 last |-> "start"])
  /\ receive_thread' = Len(threads) + 1
  /\ lastCall' = Returned("connect", TRUE, MsgConnectOk, None)
  /\ callerPc' = "idle"
  /\ callArgs' = <<>>
  /\ UNCHANGED <<socket, readLog, deliveredLog, codec>>

ConnectMsg(err) ==
  CASE err = "timeout" -> MsgConnectTimeout
    [] err = "refused" -> MsgConnectRefused
    [] OTHER -> MsgConnectFailed

\* connect, lines 181 and 192-197: socket.connect raised.
ConnectFail(err) ==
  /\ callerPc = "connecting"
  /\ sockets' = [sockets EXCEPT ![socket] = "failed"]
  /\ lastCall' = Returned("connect", FALSE, ConnectMsg(err), None)
  /\ callerPc' = "idle"
  /\ callArgs' = <<>>
  /\ UNCHANGED <<socket, is_connected, receive_thread, host, port, threads,
                 readLog, deliveredLog, codec>>

\* socket.close() of socket s; an error raised by close is swallowed by the
\* bare except of disconnect, and the descriptor is released either way.
CloseSocket(s, closeRaises) == [sockets EXCEPT ![s] = "closed"]

\* Mutant of Disconnect: no try/except around close, so an error of close
\* leaves the call before self.socket = None.
Disconnect_CloseErrorEscapes(closeRaises) ==
  /\ CanCall
  /\ IF socket # None
     THEN /\ is_connected' = FALSE
          /\ sockets' = CloseSocket(socket, closeRaises)
          /\ socket' = IF closeRaises THEN socket ELSE None
          /\ lastCall' = Returned("disconnect", ~closeRaises, "", None)
     ELSE /\ UNCHANGED <<is_connected, sockets, socket>>
          /\ lastCall' = Returned("disconnect", TRUE, "", None)
  /\ UNCHANGED <<receive_thread, host, port, threads, callerPc, callArgs,
                 readLog, deliveredLog, codec>>

\* Mutant of Disconnect: the socket is dropped with the flag still set.
Disconnect_KeepsFlag(closeRaises) ==
  /\ CanCall
  /\ IF socket # None
     THEN /\ sockets' = CloseSocket(socket, closeRaises)
          /\ socket' = None
     ELSE UNCHANGED <<sockets, socket>>
  /\ lastCall' = Returned("disconnect", TRUE, "", None)
  /\ UNCHANGED <<is_connected, receive_thread, host, port, threads, callerPc, callArgs,
                 readLog, deliveredLog, codec>>

\* disconnect, lines 199-207. The caller thread is the only writer of
\* is_connected and socket, and a receive thread sees the same outcomes
\* whether it runs before, between or after the three assignments, so the
\* call is one step.
Disconnect(closeRaises) ==
  /\ CanCall
  /\ IF socket # None
     THEN /\ is_connected' = FALSE
          /\ sockets' = CloseSocket(socket, closeRaises)
          /\ socket' = None
     ELSE UNCHANGED <<is_connected, sockets, socket>>
  /\ lastCall' = Returned("disconnect", TRUE, "", None)
  /\ UNCHANGED <<receive_thread, host, port, threads, callerPc, callArgs,
                 readLog, deliveredLog, codec>>

\* Frames the application sends (send_movement_command, send_speed_command).
SendFrames == {create_movement_command(1, 0).bytes, create_speed_command(57, 7, 1).bytes}

\* Mutant of SendData: the guard tests the socket only, not the flag.
SendData_SocketOnly(data_bytes, ioError) ==
  /\ CanCall
  /\ IF socket = None
     THEN /\ lastCall' = Returned("send", FALSE, MsgNotConnected, None)
          /\ UNCHANGED is_connected
     ELSE IF ioError \/ sockets[socket] # "connected"
     THEN /\ is_connected' = FALSE
          /\ lastCall' = Returned("send", FALSE, MsgSendFailed, socket)
     ELSE /\ UNCHANGED is_connected
          /\ lastCall' = Returned("send", TRUE, MsgSendOk, socket)
  /\ UNCHANGED <<socket, receive_thread, host, port, sockets, threads, callerPc,
                 callArgs, readLog, deliveredLog, codec>>

\* Mutant of SendData: a failed write does not clear the flag.
SendData_KeepsFlag(data_bytes, ioError) ==
  /\ CanCall
  /\ IF ~is_connected \/ socket = None
     THEN lastCall' = Returned("send", FALSE, MsgNotConnected, None)
     ELSE IF ioError \/ sockets[socket] # "connected"
     THEN lastCall' = Returned("send", FALSE, MsgSendFailed, socket)
     ELSE lastCall' = Returned("send", TRUE, MsgSendOk, socket)
  /\ UNCHANGED <<is_connected, socket, receive_thread, host, port, sockets, threads,
                 callerPc, callArgs, readLog, deliveredLog, codec>>

\* send_data, lines 209-219. sendall raises when the connection is broken
\* (ioError) or when the socket held is not a connected one.
SendData(data_bytes, ioError) ==
  /\ CanCall
  /\ IF ~is_connected \/ socket = None
     THEN /\ lastCall' = Returned("send", FALSE, MsgNotConnected, None)
          /\ UNCHANGED is_connected
     ELSE IF ioError \/ sockets[socket] # "connected"
     THEN /\ is_connected' = FALSE
          /\ lastCall' = Returned("send", FALSE, MsgSendFailed, socket)
     ELSE /\ UNCHANGED is_connected
          /\ lastCall' = Returned("send", TRUE, MsgSendOk, socket)
  /\ UNCHANGED <<socket, receive_thread, host, port, sockets, threads, callerPc,
                 callArgs, readLog, deliveredLog, codec>>

\* ------------------------------------------------------------ _receive_loop
ThreadIds == 1..Len(threads)

\* Line 223 and the evaluation of self.socket in line 225: the loop test,
\* then the thread enters recv on whatever socket self.socket holds now.
LoopTest(t) ==
  /\ threads[t].pc = "loop"
  /\ IF is_connected /\ socket # None
     THEN threads' = [threads EXCEPT ![t].pc = "recv", ![t].sock = socket,
                                     ![t].last = "test"]
     ELSE threads' = [threads EXCEPT ![t].pc = "done", ![t].last = "flag"]
  /\ UNCHANGED <<socket, is_connected, receive_thread, host, port, sockets,
                 callerPc, callArgs, lastCall, readLog, deliveredLog, codec>>

\* What recv(1024) can do: return bytes (b'' at end of stream), raise
\* socket.timeout, or raise another error. Only a connected socket returns
\* bytes; a socket that is connecting, failed or closed times out or raises.
RecvResults(status) ==
  {[kind |-> "timeout", bytes |-> <<>>], [kind |-> "error", bytes |-> <<>>]}
  \cup (IF status = "connected"
        THEN {[kind |-> "data", bytes |-> b] : b \in {NextPiece(Len(readLog) + 1), <<>>}}
        ELSE {})

\* Mutant of RecvReturn: the bytes read are appended to the bytes of the
\* previous read before they are handed on.
RecvReturn_Buffered(t, r) ==
  /\ threads[t].pc = "recv"
  /\ r \in RecvResults(sockets[threads[t].sock])
  /\ CASE r.kind = "data" ->
            LET before == IF readLog = <<>> THEN <<>> ELSE readLog[Len(readLog)]
                data == [id |-> Len(readLog) + 1, bytes |-> before \o r.bytes] IN
            /\ r.bytes # <<>> => Len(readLog) < MaxChunks
            /\ readLog' = IF r.bytes # <<>> THEN Append(readLog, r.bytes) ELSE readLog
            /\ IF data.bytes # <<>> /\ receive_callback # ""
               THEN threads' = [threads EXCEPT ![t].pc = "callback", ![t].data = data,
                                               ![t].sock = None, ![t].last = "data"]
               ELSE threads' = [threads EXCEPT ![t].pc = "loop", ![t].sock = None,
                                               ![t].last = "empty"]
       [] r.kind = "timeout" ->
            /\ threads' = [threads EXCEPT ![t].pc = "loop", ![t].sock = None,
                                          ![t].last = "timeout"]
            /\ UNCHANGED readLog
       [] OTHER ->
            /\ threads' = [threads EXCEPT ![t].pc = "done", ![t].sock = None,
                                          ![t].last = "error"]
            /\ UNCHANGED readLog
  /\ UNCHANGED <<socket, is_connected, receive_thread, host, port, sockets,
                 callerPc, callArgs, lastCall, deliveredLog, codec>>

\* Mutant of RecvReturn: a read error clears the connected flag.
RecvReturn_ErrorDisconnects(t, r) ==
  /\ threads[t].pc = "recv"
  /\ r \in RecvResults(sockets[threads[t].sock])
  /\ CASE r.kind = "data" ->
            LET data == [id |-> Len(readLog) + 1, bytes |-> r.bytes] IN
            /\ r.bytes # <<>> => Len(readLog) < MaxChunks
            /\ readLog' = IF r.bytes # <<>> THEN Append(readLog, r.bytes) ELSE readLog
            /\ IF data.bytes # <<>> /\ receive_callback # ""
               THEN threads' = [threads EXCEPT ![t].pc = "callback", ![t].data = data,
                                               ![t].sock = None, ![t].last = "data"]
               ELSE threads' = [threads EXCEPT ![t].pc = "loop", ![t].sock = None,
                                               ![t].last = "empty"]
            /\ UNCHANGED is_connected
       [] r.kind = "timeout" ->
            /\ threads' = [threads EXCEPT ![t].pc = "loop", ![t].sock = None,
                                          ![t].last = "timeout"]
            /\ UNCHANGED <<readLog, is_connected>>
       [] OTHER ->
            /\ threads' = [threads EXCEPT ![t].pc = "done", ![t].sock = None,
                                          ![t].last = "error"]
            /\ is_connected' = FALSE
            /\ UNCHANGED readLog
  /\ UNCHANGED <<socket, receive_thread, host, port, sockets,
                 callerPc, callArgs, lastCall, deliveredLog, codec>>

\* Mutant of RecvReturn: a timeout ends the loop like any other error.
RecvReturn_TimeoutEnds(t, r) ==
  /\ threads[t].pc = "recv"
  /\ r \in RecvResults(sockets[threads[t].sock])
  /\ CASE r.kind = "data" ->
            LET data == [id |-> Len(readLog) + 1, bytes |-> r.bytes] IN
            /\ r.bytes # <<>> => Len(readLog) < MaxChunks
            /\ readLog' = IF r.bytes # <<>> THEN Append(readLog, r.bytes) ELSE readLog
            /\ IF data.bytes # <<>> /\ receive_callback # ""
               THEN threads' = [threads EXCEPT ![t].pc = "callback", ![t].data = data,
                                               ![t].sock = None, ![t].last = "data"]
               ELSE threads' = [threads EXCEPT ![t].pc = "loop", ![t].sock = None,
                                               ![t].last = "empty"]
            /\ UNCHANGED is_connected
       [] r.kind = "timeout" ->
            /\ threads' = [threads EXCEPT ![t].pc = "done", ![t].sock = None,
                                          ![t].last = "timeout"]
            /\ UNCHANGED <<readLog, is_connected>>
       [] OTHER ->
            /\ threads' = [threads EXCEPT ![t].pc = "done", ![t].sock = None,
                                          ![t].last = "error"]
            /\ UNCHANGED is_connected
            /\ UNCHANGED readLog
  /\ UNCHANGED <<socket, receive_thread, host, port, sockets,
                 callerPc, callArgs, lastCall, deliveredLog, codec>>

\* Mutant of RecvReturn: an empty read (end of stream) ends the loop.
RecvReturn_EmptyEnds(t, r) ==
  /\ threads[t].pc = "recv"
  /\ r \in RecvResults(sockets[threads[t].sock])
  /\ CASE r.kind = "data" ->
            LET data == [id |-> Len(readLog) + 1, bytes |-> r.bytes] IN
            /\ r.bytes # <<>> => Len(readLog) < MaxChunks
            /\ readLog' = IF r.bytes # <<>> THEN Append(readLog, r.bytes) ELSE readLog
            /\ IF data.bytes # <<>> /\ receive_callback # ""
               THEN threads' = [threads EXCEPT ![t].pc = "callback", ![t].data = data,
                                               ![t].sock = None, ![t].last = "data"]
               ELSE threads' = [threads EXCEPT ![t].pc = "done", ![t].sock = None,
                                               ![t].last = "empty"]
            /\ UNCHANGED is_connected
       [] r.kind = "timeout" ->
            /\ threads' = [threads EXCEPT ![t].pc = "loop", ![t].sock = None,
                                          ![t].last = "timeout"]
            /\ UNCHANGED <<readLog, is_connected>>
       [] OTHER ->
            /\ threads' = [threads EXCEPT ![t].pc = "done", ![t].sock = None,
                                          ![t].last = "error"]
            /\ UNCHANGED is_connected
            /\ UNCHANGED readLog
  /\ UNCHANGED <<socket, receive_thread, host, port, sockets,
                 callerPc, callArgs, lastCall, deliveredLog, codec>>

\* Lines 225-226 and 228-231: recv returns or raises.
RecvReturn(t, r) ==
  /\ threads[t].pc = "recv"
  /\ r \in RecvResults(sockets[threads[t].sock])
  /\ CASE r.kind = "data" ->
            LET data == [id |-> Len(readLog) + 1, bytes |-> r.bytes] IN
            /\ r.bytes # <<>> => Len(readLog) < MaxChunks
            /\ readLog' = IF r.bytes # <<>> THEN Append(readLog, r.bytes) ELSE readLog
            /\ IF data.bytes # <<>> /\ receive_callback # ""
               THEN threads' = [threads EXCEPT ![t].pc = "callback", ![t].data = data,
                                               ![t].sock = None, ![t].last = "data"]
               ELSE threads' = [threads EXCEPT ![t].pc = "loop", ![t].sock = None,
                                               ![t].last = "empty"]
       [] r.kind = "timeout" ->
            /\ threads' = [threads EXCEPT ![t].pc = "loop", ![t].sock = None,
                                          ![t].last = "timeout"]
            /\ UNCHANGED readLog
       [] OTHER ->
            /\ threads' = [threads EXCEPT ![t].pc = "done", ![t].sock = None,
                                          ![t].last = "error"]
            /\ UNCHANGED readLog
  /\ UNCHANGED <<socket, is_connected, receive_thread, host, port, sockets,
                 callerPc, callArgs, lastCall, deliveredLog, codec>>

\* Mutant of Callback: an error of the observer is caught inside the loop,
\* which goes on.
Callback_RaiseContinues(t, raises) ==
  /\ threads[t].pc = "callback"
  /\ deliveredLog' = Append(deliveredLog, threads[t].data)
  /\ threads' = [threads EXCEPT ![t].pc = "loop",
                                ![t].data = NoData,
                                ![t].last = IF raises THEN "raised" ELSE "delivered"]
  /\ UNCHANGED <<socket, is_connected, receive_thread, host, port, sockets,
                 callerPc, callArgs, lastCall, readLog, codec>>

\* Line 227: self.receive_callback(data); if the observer raises, the bare
\* except of line 230 ends the loop.
Callback(t, raises) ==
  /\ threads[t].pc = "callback"
  /\ deliveredLog' = Append(deliveredLog, threads[t].data)
  /\ threads' = [threads EXCEPT ![t].pc = IF raises THEN "done" ELSE "loop",
                                ![t].data = NoData,
                                ![t].last = IF raises THEN "raised" ELSE "delivered"]
  /\ UNCHANGED <<socket, is_connected, receive_thread, host, port, sockets,
                 callerPc, callArgs, lastCall, readLog, codec>>

Next ==
  \/ \E h \in Hosts, p \in Ports : ConnectBegin(h, p)
  \/ ConnectOk
  \/ \E err \in ConnectErrors : ConnectFail(err)
  \/ \E closeRaises \in BOOLEAN : Disconnect(closeRaises)
  \/ \E data_bytes \in SendFrames, ioError \in BOOLEAN : SendData(data_bytes, ioError)
  \/ \E t \in ThreadIds : LoopTest(t)
  \/ \E t \in ThreadIds :
       \E r \in RecvResults("connected") : RecvReturn(t, r)
  \/ \E t \in ThreadIds, raises \in BOOLEAN : Callback(t, raises)

Spec == Init /\ [][Next]_vars

\* The steps of receive thread t. A started thread is scheduled again and
\* again, and each of its steps ends: the loop test is plain code, recv returns
\* or raises within the timeout set on the socket (lines 180, 182), and the
\* observer returns or raises.
ThreadStep(t) ==
  /\ t \in ThreadIds
  /\ \/ LoopTest(t)
     \/ \E r \in RecvResults("connected") : RecvReturn(t, r)
     \/ \E raises \in BOOLEAN : Callback(t, raises)

\* The caller thread is under no obligation to call again.
FairSpec == Spec /\ \A t \in 1..MaxConnects : WF_vars(ThreadStep(t))

\* ------------------------------------------------- RobotProtocol, applied
Call(fn, args) == [NoCall EXCEPT !.fn = fn, !.args = args]
CallOn(fn, data) == [NoCall EXCEPT !.fn = fn, !.data = data]

\* Byte strings passed to calculate_checksum: every string of at most
\* MaxLen bytes over the header bytes and two others.
ChecksumBytes == {170, 85, 1, 255}
ChecksumInputs == UNION {[1..n -> ChecksumBytes] : n \in 0..MaxLen}

\* Buffers passed to decode_response: every prefix of nine bytes with a
\* right or wrong header, length byte, type and sub-type.
Buffers ==
  {SubSeq(<<h1, h2, len, type, b4, b5, b6, b7, 0>>, 1, n) :
     h1 \in {170, 0}, h2 \in {85, 0}, len \in {4, 7, 0}, type \in {128, 129, 0},
     b4 \in {0, 1, 2, 200}, b5 \in {0, 6, 200}, b6 \in {0, 57, 255}, b7 \in {0, 7},
     n \in 0..9}

\* The calls considered: every direction of Directions and every id;
\* speeds and acceleration times below, inside and above their ranges;
\* angles below, inside and above 0..180 degrees, whole and fractional.
InitCodec ==
  /\ InitLink
  /\ codec \in {Call("movement", <<d, i>>) : d \in Directions, i \in Ids}
         \cup {Call("speed", <<s, a, i>>) : s \in Speeds, a \in Accels, i \in Ids}
         \cup {Call("angle", <<g, i>>) : g \in Angles, i \in FewIds}
         \cup {CallOn("checksum", b) : b \in ChecksumInputs}
         \cup {CallOn("decode", b) : b \in Buffers}

\* The call of create_movement_command returns.
EncodeMovement ==
  /\ codec.fn = "movement" /\ ~codec.done
  /\ codec' = [codec EXCEPT !.done = TRUE,
                            !.result = create_movement_command(codec.args[1], codec.args[2])]
  /\ UNCHANGED linkVars

\* The call of create_speed_command returns.
EncodeSpeed ==
  /\ codec.fn = "speed" /\ ~codec.done
  /\ codec' = [codec EXCEPT !.done = TRUE,
                            !.result = create_speed_command(codec.args[1], codec.args[2],
                                                            codec.args[3])]
  /\ UNCHANGED linkVars

\* The call of create_angle_command returns.
EncodeAngle ==
  /\ codec.fn = "angle" /\ ~codec.done
  /\ codec' = [codec EXCEPT !.done = TRUE,
                            !.result = create_angle_command(codec.args[1], codec.args[2])]
  /\ UNCHANGED linkVars

\* The call of calculate_checksum returns.
Checksum ==
  /\ codec.fn = "checksum" /\ ~codec.done
  /\ codec' = [codec EXCEPT !.done = TRUE, !.sum = calculate_checksum(codec.data)]
  /\ UNCHANGED linkVars

\* The call of decode_response returns.
Decode ==
  /\ codec.fn = "decode" /\ ~codec.done
  /\ codec' = [codec EXCEPT !.done = TRUE, !.response = decode_response(codec.data)]
  /\ UNCHANGED linkVars

\* The response shape of a frame: the frame without its checksum byte.
ResponseShape(frame) == SubSeq(frame, 1, Len(frame) - 1)

\* The robot answers a command with its response shape, which is decoded.
DecodeShape ==
  /\ codec.fn \in {"movement", "speed", "angle"}
  /\ codec.done /\ ~codec.echoed /\ ~codec.looped
  /\ ~codec.result.none /\ ~codec.result.raised
  /\ codec' = [codec EXCEPT !.echoed = TRUE,
                            !.data = ResponseShape(codec.result.bytes),
                            !.response = decode_response(ResponseShape(codec.result.bytes))]
  /\ UNCHANGED linkVars

\* The command frame itself comes back from the peer (a loopback) and is
\* passed to decode_response whole, checksum byte included.
DecodeFrame ==
  /\ codec.fn \in {"movement", "speed", "angle"}
  /\ codec.done /\ ~codec.echoed /\ ~codec.looped
  /\ ~codec.result.none /\ ~codec.result.raised
  /\ codec' = [codec EXCEPT !.looped = TRUE,
                            !.data = codec.result.bytes,
                            !.response = decode_response(codec.result.bytes)]
  /\ UNCHANGED linkVars

NextCodec ==
  \/ EncodeMovement
  \/ EncodeSpeed
  \/ EncodeAngle
  \/ Checksum
  \/ Decode
  \/ DecodeShape
  \/ DecodeFrame

SpecCodec == InitCodec /\ [][NextCodec]_vars

\* ================================================================ claims
\* Steps of the caller thread that return from an API call.
Returns(op) == lastCall'.tick # lastCall.tick /\ lastCall'.op = op
\* The fields of the connection.
connection == <<socket, is_connected, host, port, sockets>>
\* The receive threads that have not terminated.
Running == {t \in ThreadIds : threads[t].pc # "done"}

\* C1: whenever connect fails it returns (false, reason) and the state after
\* the call is Disconnected, whatever the state was before the call.
\* Violated: a connect that fails while a connection is up leaves
\* is_connected = True (and self.socket bound to the socket that failed).
C1_FailedConnectLeavesDisconnected ==
  (callerPc = "idle" /\ lastCall.op = "connect" /\ ~lastCall.ok) => ~is_connected

\* C2: in every reachable state at most one receive thread is running.
\* Violated: connect never stops the thread of the previous connection.
C2_AtMostOneReceiveTask == Cardinality(Running) <= 1

\* C3: when connect is called while Connected, the existing connection is
\* closed (socket closed, stop signalled through the flag) before the new
\* socket is opened. Violated: line 179 rebinds self.socket to the new socket
\* with the old one still open and the flag still set.
C3_ConnectClosesExistingFirst ==
  [][(callerPc = "idle" /\ callerPc' = "connecting" /\ is_connected)
       => (sockets'[socket] = "closed" /\ ~is_connected')]_vars

\* C4: in every state where the state is not Connected, send returns
\* (false, not connected), calls sendall on no socket and leaves the flag, the
\* socket handle, host and port (and every socket) unchanged.
C4_SendWhenNotConnected ==
  [][(Returns("send") /\ ~is_connected)
       => /\ ~lastCall'.ok
          /\ lastCall'.msg = MsgNotConnected
          /\ lastCall'.wrote = None
          /\ UNCHANGED connection]_vars
\* send_data was called after a failed send: flag cleared, socket still held.
C4_Witness ==
  /\ lastCall.op = "send" /\ lastCall.msg = MsgNotConnected
  /\ lastCall.prev = "send"
  /\ socket # None

\* C5: disconnect is total and idempotent: from every state it returns
\* normally with the state Disconnected, no socket held and the socket it held
\* closed, also when close raises; a disconnect that follows a disconnect
\* changes no field of the connection.
C5_DisconnectIdempotent ==
  [][Returns("disconnect")
       => /\ lastCall'.ok
          /\ ~is_connected'
          /\ socket' = None
          /\ socket # None => sockets'[socket] = "closed"
          /\ UNCHANGED <<host, port, receive_thread, threads>>
          /\ lastCall.op = "disconnect" => UNCHANGED connection]_vars
\* A second consecutive disconnect returned, the first having closed a
\* connection whose receive thread is still inside recv.
C5_Witness ==
  /\ lastCall.op = "disconnect" /\ lastCall.prev = "disconnect"
  /\ \E t \in ThreadIds : threads[t].pc = "recv" /\ sockets[threads[t].sock] = "closed"

\* C6: send in state Connected: if the write fails it returns (false, reason)
\* and the state is Disconnected afterwards; if it succeeds it returns
\* (true, message) and the state stays Connected. Either way the bytes go to
\* the socket held, which stays held.
C6_SendWhenConnected ==
  [][(Returns("send") /\ is_connected)
       => /\ lastCall'.wrote = socket /\ socket # None
          /\ lastCall'.ok <=> is_connected'
          /\ lastCall'.msg = IF lastCall'.ok THEN MsgSendOk ELSE MsgSendFailed
          /\ UNCHANGED <<socket, host, port, sockets>>]_vars
\* A write on a connected socket failed.
C6_Witness ==
  /\ lastCall.op = "send" /\ lastCall.msg = MsgSendFailed
  /\ lastCall.wrote # None /\ sockets[lastCall.wrote] = "connected"
  /\ ~is_connected

\* C7: no automatic reconnect: the state changes from Disconnected to
\* Connected only in the step in which a connect call returns ok = true.
C7_NoAutomaticReconnect ==
  [][(~is_connected /\ is_connected')
       => (Returns("connect") /\ lastCall'.ok)]_vars
\* Connected again after a failed send (socket 1 never closed) and with the
\* thread of the first connection still alive.
C7_Witness ==
  /\ is_connected /\ Len(sockets) = 2 /\ socket = 2
  /\ sockets[1] = "connected"
  /\ lastCall.op = "connect" /\ lastCall.prev = "send"
  /\ threads[1].pc = "loop"

\* C8: a connect that succeeds returns (true, message), leaves the state
\* Connected on a connected socket with the given host and port recorded, and
\* starts exactly one new receive thread (the others are left as they were).
C8_ConnectSuccess ==
  [][(Returns("connect") /\ lastCall'.ok)
       => /\ lastCall'.msg = MsgConnectOk
          /\ is_connected'
          /\ socket' # None /\ sockets'[socket'] = "connected"
          /\ host' = callArgs[1] /\ port' = callArgs[2]
          /\ Len(threads') = Len(threads) + 1
          /\ threads'[Len(threads')].pc = "loop"
          /\ receive_thread' = Len(threads')
          /\ \A t \in ThreadIds : threads'[t] = threads[t]]_vars
\* A connect to the non-default host succeeded.
C8_Witness ==
  /\ lastCall.op = "connect" /\ lastCall.ok
  /\ host = "10.0.0.7" /\ is_connected /\ Len(threads) = 1

\* Number of calls of the observer with chunk k.
Deliveries(k) == Cardinality({j \in 1..Len(deliveredLog) : deliveredLog[j].id = k})
\* Number of threads that hold chunk k and have not yet called the observer.
Holding(k) == Cardinality({t \in ThreadIds : threads[t].pc = "callback" /\ threads[t].data.id = k})

\* C9: every non-empty chunk a recv returned is passed to the observer
\* exactly once, unmodified, one observer call per read: each chunk read is
\* either held by one thread that is about to call the observer with it, or
\* has been the argument of exactly one call; every argument of the observer
\* is the bytes of one read.
C9_DeliveredExactlyOnce ==
  /\ \A k \in 1..Len(readLog) : Deliveries(k) + Holding(k) = 1
  /\ \A j \in 1..Len(deliveredLog) :
        /\ deliveredLog[j].id \in 1..Len(readLog)
        /\ deliveredLog[j].bytes = readLog[deliveredLog[j].id]
  /\ \A t \in ThreadIds : threads[t].pc = "callback" =>
        /\ threads[t].data.id \in 1..Len(readLog)
        /\ threads[t].data.bytes = readLog[threads[t].data.id]
\* Two chunks delivered while two receive threads exist.
C9_Witness ==
  /\ Len(deliveredLog) = 2 /\ Len(readLog) = 2
  /\ Cardinality(Running) = 2

\* C10: for every direction in 1..6 and every id byte, the movement frame
\* is exactly 7 bytes: AA 55, LEN = 04, TYPE = 80, the id byte at offset 4,
\* the direction code at offset 5, and last the checksum of bytes[2:6].
C10_MovementFrame ==
  (codec.fn = "movement" /\ codec.done /\ codec.args[1] \in 1..6
     /\ codec.args[2] \in IdBytes) =>
    LET f == codec.result.bytes
        direction == codec.args[1]
        id_byte == codec.args[2] IN
    /\ ~codec.result.none /\ ~codec.result.raised
    /\ Len(f) = 7
    /\ SubSeq(f, 1, 4) = <<170, 85, 4, 128>>
    /\ f[5] = id_byte
    /\ f[6] = direction
    /\ f[7] = calculate_checksum(SubSeq(f, 3, 6))
    /\ f[7] = (4 + 128 + id_byte + direction) % 256
\* A movement frame whose checksum wraps around 256.
C10_Witness ==
  /\ codec.fn = "movement" /\ codec.done
  /\ codec.args = <<6, 255>>
  /\ codec.result.bytes = <<170, 85, 4, 128, 255, 6, 137>>

\* An encoder returned a frame.
Encoded(fn) ==
  codec.fn = fn /\ codec.done /\ ~codec.result.none /\ ~codec.result.raised
\* The value v clamped to lo..hi.
Clamp(v, lo, hi) == IF v < lo THEN lo ELSE IF v > hi THEN hi ELSE v
RECURSIVE SumBytes(_)
\* The sum of the bytes of bs.
SumBytes(bs) == IF bs = <<>> THEN 0 ELSE Head(bs) + SumBytes(Tail(bs))

\* C11: for every direction outside 1..6 and every id (a byte or not),
\* create_movement_command returns None and does not raise.
C11_InvalidDirectionGivesNone ==
  (codec.fn = "movement" /\ codec.done /\ codec.args[1] \notin 1..6) =>
    /\ codec.result.none
    /\ ~codec.result.raised
    /\ codec.result.bytes = <<>>
\* Direction 7 with an id that bytes() would refuse.
C11_Witness ==
  /\ codec.fn = "movement" /\ codec.done
  /\ codec.args = <<7, 256>>
  /\ codec.result.none

\* C12: for every integer speed and acceleration time, below, inside or
\* above the range, create_speed_command does not fail, its SPEED byte is
\* min(115, max(0, speed)), its ACCEL byte min(255, max(0, accel)) and its ID
\* byte the id.
C12_SpeedClamped ==
  (codec.fn = "speed" /\ codec.done /\ codec.args[3] \in IdBytes) =>
    LET f == codec.result.bytes IN
    /\ ~codec.result.raised /\ ~codec.result.none
    /\ f[6] = codec.args[3]
    /\ f[7] = Clamp(codec.args[1], 0, 115)
    /\ f[8] = Clamp(codec.args[2], 0, 255)
\* A negative speed with an acceleration time above 255.
C12_Witness ==
  /\ Encoded("speed")
  /\ codec.args = <<-50, 400, 255>>
  /\ codec.result.bytes[7] = 0 /\ codec.result.bytes[8] = 255

\* C13 as claimed: the output of create_speed_command is always 10 bytes
\* long, with LEN = 07, TYPE = 81 and SUBTYPE = 01 at offsets 2, 3 and 4.
\* Violated: the frame is AA 55 07 81 01 id speed accel checksum, 9 bytes.
C13_SpeedFrameTenBytes ==
  (codec.fn = "speed" /\ codec.done /\ codec.args[3] \in IdBytes) =>
    LET f == codec.result.bytes IN
    /\ Len(f) = 10
    /\ f[3] = 7 /\ f[4] = 129 /\ f[5] = 1
\* C13 as amended: the output of create_speed_command is always 9 bytes
\* long, with LEN = 07 at offset 2, TYPE = 81 at offset 3 and SUBTYPE = 01
\* at offset 4.
C13_SpeedFrameNineBytes ==
  (codec.fn = "speed" /\ codec.done /\ codec.args[3] \in IdBytes) =>
    LET f == codec.result.bytes IN
    /\ ~codec.result.raised /\ ~codec.result.none
    /\ Len(f) = 9
    /\ SubSeq(f, 1, 2) = <<170, 85>>
    /\ f[3] = 7 /\ f[4] = 129 /\ f[5] = 1
\* A speed frame for inputs outside both ranges.
C13_Witness ==
  /\ Encoded("speed")
  /\ codec.args = <<300, -10, 4>>
  /\ Len(codec.result.bytes) = 9

C15_ChecksumOfFrame ==
  (codec.fn \in {"movement", "speed", "angle"} /\ codec.done
     /\ ~codec.result.none /\ ~codec.result.raised) =>
    LET f == codec.result.bytes IN
    f[Len(f)] = SumBytes(SubSeq(f, 3, Len(f) - 1)) % 256
\* A speed frame whose sum passes 256 twice.
C15_Witness ==
  /\ Encoded("speed")
  /\ codec.args = <<115, 255, 255>>
  /\ codec.result.bytes[9] = 250

\* The bytes begin with the header AA 55.
HasHeader(d) == Len(d) >= 2 /\ d[1] = 170 /\ d[2] = 85

\* C16: calculate_checksum returns a value in 0..255: the sum modulo 256 of
\* every byte after the first two when the input begins with AA 55, of the
\* whole input otherwise (0 for the empty input). No trailing byte is
\* skipped: for a header-prefixed F, checksum(F ++ [x]) = (checksum(F) + x) mod 256.
C16_ChecksumRule ==
  (codec.fn = "checksum" /\ codec.done) =>
    LET d == codec.data IN
    /\ codec.sum \in 0..255
    /\ codec.sum = IF HasHeader(d) THEN SumBytes(SubSeq(d, 3, Len(d))) % 256
                   ELSE SumBytes(d) % 256
    /\ HasHeader(d) =>
         \A x \in ChecksumBytes :
           calculate_checksum(Append(d, x)) = (codec.sum + x) % 256
\* A header-prefixed input whose sum wraps around 256.
C16_Witness ==
  /\ codec.fn = "checksum" /\ codec.done
  /\ codec.data = <<170, 85, 255, 255>>
  /\ codec.sum = 254

\* C17 as claimed: in every frame of the three encoders the LEN byte is the
\* count of the bytes from TYPE to the end of the payload (the frame without
\* its header, its LEN byte and its checksum). Violated: a movement frame
\* has LEN = 04 and 3 such bytes, a speed or angle frame LEN = 07 and 5.
C17_LenCountsTypeThroughPayload ==
  (codec.fn \in {"movement", "speed", "angle"} /\ codec.done
     /\ ~codec.result.none /\ ~codec.result.raised) =>
    codec.result.bytes[3] = Len(codec.result.bytes) - 4
\* C17 as amended: the LEN byte is the fixed value of the command's format,
\* 04 in a movement frame and 07 in a speed or angle frame: one more
\* (movement) or two more (speed, angle) than the count of the bytes from
\* TYPE to the end of the payload.
C17_LenByteFixed ==
  (codec.fn \in {"movement", "speed", "angle"} /\ codec.done
     /\ ~codec.result.none /\ ~codec.result.raised) =>
    LET f == codec.result.bytes
        counted == Len(f) - 4 IN
    IF codec.fn = "movement" THEN f[3] = 4 /\ counted = 3
    ELSE f[3] = 7 /\ counted = 5
\* An angle frame.
C17_Witness ==
  /\ Encoded("angle")
  /\ codec.result.bytes[3] = 7 /\ Len(codec.result.bytes) = 9

\* C18: round trip over the response shapes (the frame of an encoder
\* without its checksum byte): the speed shape decodes to a speed response
\* with the clamped speed, the clamped acceleration time and the id; the
\* movement shape to a movement response with the id and the direction;
\* the angle shape to an angle response with the clamped, truncated angle.
\* The id and the direction are shown by name, and no other id or direction
\* has that name.
C18_RoundTrip ==
  codec.echoed =>
    LET r == codec.response IN
    CASE codec.fn = "speed" ->
           /\ r.kind = "speed"
           /\ r.speed = ToString(Clamp(codec.args[1], 0, 115))
           /\ r.accel = ToString(Clamp(codec.args[2], 0, 255))
           /\ r.id = IdName(codec.args[3])
           /\ \A j \in IdBytes : IdName(j) = r.id => j = codec.args[3]
      [] codec.fn = "movement" ->
           /\ r.kind = "movement"
           /\ r.id = IdName(codec.args[2])
           /\ \A j \in IdBytes : IdName(j) = r.id => j = codec.args[2]
           /\ r.direction = direction_codes[codec.args[1]]
           /\ \A e \in IdBytes : DirectionName(e) = r.direction => e = codec.args[1]
      [] OTHER ->
           LET degrees == Clamp(codec.args[1], 0, 180 * AngleScale) \div AngleScale IN
           /\ r.kind = "angle"
           /\ r.degrees = ToString(degrees) \o ".0"
           /\ r.byte = Hex2(degrees)
\* The shape of a speed command whose inputs were both clamped.
C18_Witness ==
  /\ codec.echoed /\ codec.fn = "speed"
  /\ codec.args = <<300, 400, 200>>
  /\ codec.response.speed = "115" /\ codec.response.accel = "255"
  /\ codec.response.id = "ID=200"

\* The buffer has one of the three response shapes.
KnownShape(d) ==
  \/ Len(d) = 6 /\ d[3] = 4 /\ d[4] = 128
  \/ Len(d) = 8 /\ d[3] = 7 /\ d[4] = 129 /\ d[5] \in {1, 2}

\* C19: decode_response is total: for every input of fewer than 6 bytes,
\* with first two bytes other than AA 55, or with a (length, LEN, TYPE,
\* SUBTYPE) that matches none of the three response shapes, it returns None
\* (and reads no index outside the buffer).
C19_DecodeTotal ==
  (codec.fn = "decode" /\ codec.done) =>
    LET d == codec.data IN
    (Len(d) < 6 \/ ~HasHeader(d) \/ ~KnownShape(d)) => codec.response = NoResponse
\* A movement response followed by one more byte of the next frame.
C19_Witness ==
  /\ codec.fn = "decode" /\ codec.done
  /\ codec.data = <<170, 85, 4, 128, 1, 6, 0>>
  /\ codec.response.kind = "none"

\* C20 as claimed: every 6-byte buffer with header AA 55 and TYPE = 80
\* decodes to a movement response of byte 4 and byte 5, every 8-byte buffer
\* with header AA 55, TYPE = 81 and SUBTYPE = 01 to a speed response of
\* bytes 5, 6 and 7, whatever the LEN byte. Violated: lines 1092 and 1117
\* test data[2] as well.
C20_DispatchIgnoresLen ==
  (codec.fn = "decode" /\ codec.done /\ HasHeader(codec.data)) =>
    LET d == codec.data IN
    /\ (Len(d) = 6 /\ d[4] = 128) => codec.response = MovementResponse(d[5], d[6])
    /\ (Len(d) = 8 /\ d[4] = 129 /\ d[5] = 1)
         => codec.response = SpeedResponse(d[6], d[7], d[8])
\* C20 as amended: the LEN byte takes part in the dispatch. A 6-byte buffer
\* with header AA 55, LEN = 04 and TYPE = 80 decodes to a movement response
\* with the id of byte 4 and the direction of byte 5 (by name; "unknown"
\* outside 1..6); an 8-byte buffer with header AA 55, LEN = 07, TYPE = 81
\* and SUBTYPE = 01 to a speed response with the id of byte 5, the speed of
\* byte 6 and the acceleration time of byte 7; with another LEN byte such a
\* buffer decodes to None.
C20_DispatchWithLen ==
  (codec.fn = "decode" /\ codec.done /\ HasHeader(codec.data)) =>
    LET d == codec.data
        r == codec.response IN
    /\ (Len(d) = 6 /\ d[4] = 128) =>
         IF d[3] = 4
         THEN /\ r.kind = "movement"
              /\ r.id = IdName(d[5])
              /\ r.direction = IF d[6] \in 1..6 THEN direction_codes[d[6]] ELSE "unknown"
         ELSE r = NoResponse
    /\ (Len(d) = 8 /\ d[4] = 129 /\ d[5] = 1) =>
         IF d[3] = 7
         THEN /\ r.kind = "speed"
              /\ r.id = IdName(d[6])
              /\ r.speed = ToString(d[7])
              /\ r.accel = ToString(d[8])
         ELSE r = NoResponse
\* A speed response for an id without a name.
C20_Witness ==
  /\ codec.fn = "decode" /\ codec.done
  /\ codec.data = <<170, 85, 7, 129, 1, 200, 57, 7>>
  /\ codec.response.kind = "speed" /\ codec.response.id = "ID=200"
  /\ codec.response.speed = "57"

\* C21 as claimed: create_movement_command(1, 0) returns exactly the bytes
\* AA 55 04 80 00 01 86. Violated: the last byte is the checksum
\* (04 + 80 + 00 + 01) mod 256 = 85.
C21_ForwardWholeCar86 ==
  (codec.fn = "movement" /\ codec.done /\ codec.args = <<1, 0>>) =>
    codec.result = Frame(<<170, 85, 4, 128, 0, 1, 134>>)
\* C21 as amended: create_movement_command(1, 0) returns exactly the bytes
\* AA 55 04 80 00 01 85.
C21_ForwardWholeCar85 ==
  (codec.fn = "movement" /\ codec.done /\ codec.args = <<1, 0>>) =>
    codec.result = Frame(<<170, 85, 4, 128, 0, 1, 133>>)
\* The call create_movement_command(1, 0) has returned a frame of 7 bytes.
C21_Witness ==
  /\ Encoded("movement") /\ codec.args = <<1, 0>>
  /\ Len(codec.result.bytes) = 7 /\ codec.result.bytes[7] = 133

\* Thread t makes a step out of recv with the given outcome.
RecvEnds(t, outcome) == threads[t].pc = "recv" /\ threads'[t].last = outcome
\* A step of the caller thread that returns from connect, send_data or disconnect.
CallerReturns == Returns("connect") \/ Returns("send") \/ Returns("disconnect")

\* C22: a read error other than a timeout ends the receive loop and leaves
\* the connection as it was: the flag, the socket handle, host and port (and
\* every socket) are unchanged by the step; the flag is written only by a
\* step that returns from connect, send_data or disconnect.
C22_ReadErrorLeavesState ==
  [][/\ \A t \in ThreadIds :
          RecvEnds(t, "error") => (threads'[t].pc = "done" /\ UNCHANGED connection)
     /\ is_connected' # is_connected => CallerReturns]_vars
\* A loop ended by a read error with the connection still up: one connect
\* was called, and neither send_data nor disconnect.
C22_Witness ==
  /\ \E t \in ThreadIds : threads[t].pc = "done" /\ threads[t].last = "error"
  /\ is_connected /\ socket # None /\ sockets[socket] = "connected"
  /\ callerPc = "idle" /\ lastCall.op = "connect" /\ lastCall.prev = "init"

\* C23: after disconnect has returned, every receive thread that was running
\* terminates eventually, also when connect is called again before the
\* thread has tested the flag. Violated: a connect that succeeds before the
\* thread tests the flag sets the flag again, and the thread reads on.
C23_TaskEndsAfterDisconnect ==
  \A t \in 1..MaxConnects :
    (lastCall.op = "disconnect" /\ t \in ThreadIds /\ threads[t].pc # "done")
      ~> (t \in ThreadIds /\ threads[t].pc = "done")

\* C24: a read timeout is not an error: the step delivers nothing, changes
\* no field of the connection and leaves the thread in the loop; from the
\* loop test the thread goes to the next read exactly when the flag is set
\* and a socket is held.
C24_TimeoutContinues ==
  [][\A t \in ThreadIds :
       /\ RecvEnds(t, "timeout")
            => /\ threads'[t].pc = "loop"
               /\ UNCHANGED <<deliveredLog, readLog, connection>>
       /\ (threads[t].pc = "loop" /\ threads'[t] # threads[t])
            => (threads'[t].pc = "recv" <=> (is_connected /\ socket # None))]_vars
\* A thread back in the loop after a timeout, the connection up.
C24_Witness ==
  /\ \E t \in ThreadIds : threads[t].pc = "loop" /\ threads[t].last = "timeout"
  /\ is_connected /\ socket # None /\ deliveredLog = <<>>

\* C25: in every reachable state, is_connected = True implies that a socket
\* is held.
C25_FlagImpliesSocket == is_connected => socket # None
\* Connected again after a disconnect had dropped the socket.
C25_Witness ==
  /\ is_connected /\ socket = 2
  /\ lastCall.op = "connect" /\ lastCall.prev = "disconnect"
  /\ sockets[1] = "closed"

\* C26: the observer is called with the chunks in the order in which they
\* were read: no later chunk is delivered before an earlier one. Violated:
\* two receive threads each hold a chunk and the second calls first.
C26_DeliveredInReadOrder ==
  \A i, j \in 1..Len(deliveredLog) :
    i < j => deliveredLog[i].id < deliveredLog[j].id

\* C27: when a read returns zero bytes, the step delivers nothing, changes
\* no field of the connection and leaves the thread in the loop; after it the
\* loop test ends the loop only with the flag cleared or no socket held, and
\* the flag is cleared only by a step that returns from send_data or
\* disconnect.
C27_EmptyReadContinues ==
  [][/\ \A t \in ThreadIds :
          /\ RecvEnds(t, "empty")
               => /\ threads'[t].pc = "loop"
                  /\ UNCHANGED <<deliveredLog, readLog, connection>>
          /\ (threads[t].pc = "loop" /\ threads[t].last = "empty"
                /\ threads'[t].pc = "done")
               => (~is_connected \/ socket = None)
     /\ (is_connected /\ ~is_connected')
          => (Returns("send") \/ Returns("disconnect"))]_vars
\* A thread back in the loop after an empty read on the connected socket.
C27_Witness ==
  /\ \E t \in ThreadIds : threads[t].pc = "loop" /\ threads[t].last = "empty"
  /\ is_connected /\ socket # None /\ sockets[socket] = "connected"
  /\ deliveredLog = <<>>

\* C28: when the observer raises, the receive loop ends in that step with
\* nothing else changed (the flag stays set); a thread that has ended makes
\* no further step, so it delivers no chunk read afterwards.
C28_ObserverErrorEndsLoop ==
  [][\A t \in ThreadIds :
       /\ (threads[t].pc = "callback" /\ threads'[t].last = "raised")
            => /\ threads'[t].pc = "done"
               /\ UNCHANGED <<connection, lastCall, readLog>>
       /\ threads[t].pc = "done" => threads'[t] = threads[t]
       /\ deliveredLog' # deliveredLog
            => \E u \in ThreadIds : threads[u].pc = "callback"]_vars
\* The only thread has ended in the observer, the connection is up.
C28_Witness ==
  /\ Len(threads) = 1 /\ threads[1].pc = "done" /\ threads[1].last = "raised"
  /\ is_connected /\ socket # None /\ sockets[socket] = "connected"
  /\ Len(deliveredLog) = 1

\* C29: no command frame of an encoder is recognised by decode_response:
\* for every call that returns a frame, the frame is 7 bytes (movement) or
\* 9 bytes (speed, angle) long, decode_response accepts 6 or 8 bytes only,
\* and the decoding of the whole frame is None.
C29_CommandFrameNotDecoded ==
  codec.looped =>
    /\ codec.data = codec.result.bytes
    /\ Len(codec.data) = IF codec.fn = "movement" THEN 7 ELSE 9
    /\ codec.response = NoResponse
\* A speed frame was decoded whole.
C29_Witness ==
  /\ codec.looped /\ codec.fn = "speed"
  /\ codec.args = <<57, 7, 1>>
  /\ codec.data = <<170, 85, 7, 129, 1, 1, 57, 7, 202>>
  /\ codec.response.kind = "none"

====
